---- MODULE Spec2Model ----
(***************************************************************************)
(* Model of the resilience layer of dymo-api-python                        *)
(* (src/dymoapi/resilience/__init__.py): the RateLimitTracker shared by    *)
(* the process and ResilienceManager.execute_with_resilience.              *)
(*                                                                         *)
(* Header values are strings, modelled as sequences of characters, so     *)
(* that int() is modelled by what it does (ParseInt) and a value that     *)
(* does not parse raises ValueError (IsIntLiteral is false). A character  *)
(* is a one-character string; a character that has no string literal      *)
(* here is written as its code point, "U+000B".                            *)
(* A Python dict is a function whose DOMAIN is the set of its keys.        *)
(* A Python int has no width: the numbers of the headers, retry_delay,     *)
(* the backoff delays and the lengths of the waits are kept as a sign and  *)
(* decimal digits (PyInt). time.sleep is modelled by what CPython does     *)
(* with the length and with the reading of the monotonic clock, which the  *)
(* environment chooses: it sleeps, or it raises ValueError, OverflowError  *)
(* or OSError.                                                             *)
(*                                                                         *)
(* A thread inside execute_with_resilience takes one step up to each       *)
(* place where it blocks or reads the shared tracker again: entering the   *)
(* call (is_rate_limited), the pre-wait (get_retry_after, time.sleep),     *)
(* sending the request, the answer with update_rate_limit and the          *)
(* examination of the status, the wait of a 429 (get_retry_after,          *)
(* time.sleep) and the raise that follows it. Where several threads run    *)
(* (SpecRace, SpecConcurrent) the steps inside update_rate_limit are its   *)
(* statements, the tracker having no lock; where one thread runs (Spec,    *)
(* SpecObserved, SpecTracker) update_rate_limit is one step.               *)
(***************************************************************************)
EXTENDS Integers, Sequences, FiniteSets, TLC

VARIABLES
    client_limits,  \* _rate_tracker.client_limits: client_id -> limit_info dict
    now,            \* the value time.time() returns (abstract, monotone)
    config,         \* self.config of the manager making the current call
    client_id,      \* self.client_id of the manager making the current call
    fallback_data,  \* the fallback_data argument of the current call
    pc,             \* where the current call stands: "idle", "prewait" (line 99),
                    \* "attempting" (line 104, before request `attempt`),
                    \* "requesting" (inside session.request, line 106),
                    \* "updating" (inside update_rate_limit, line 109),
                    \* "ratewait" (line 113), "sleeping" (inside time.sleep,
                    \* line 116), "returned", "raised"
    attempt,        \* the loop variable of line 104 (next attempt to make)
    last_error,     \* the local last_error (line 94 / 123)
    outcome,        \* the value returned or the exception raised by the call
    trace,          \* history: what the current call has done so far
    last_update,    \* history: the last direct update_rate_limit call
    race,           \* the dict objects of the tracker and the threads that are
                    \* inside update_rate_limit at the same time
    peer            \* a call made by another thread at the same time: its
                    \* manager, arguments, position and locals

vars == <<client_limits, now, config, client_id, fallback_data, pc, attempt,
          last_error, outcome, trace, last_update, race, peer>>

----------------------------------------------------------------------------
(* Bounds of the model *)

\* largest retry_attempts a ResilienceConfig is built with
MaxRetries == 2
\* requests answered in one behaviour of the executor (each answer reads the clock)
MaxTime == 3
\* update_rate_limit calls in one behaviour of the tracker used on its own
\* or by several threads
MaxUpdates == 2

\* client identifiers known to the tracker
ClientIds == {"a", "b"}
\* client identifiers of the managers whose calls are followed step by step
ManagerIds == {"a"}

----------------------------------------------------------------------------
(* Python values *)

\* Optional[T]: None is the empty sequence, a value v is <<v>>
None == <<>>
Some(v) == <<v>>

EmptyDict == [k \in {} |-> 0]

\* d[k] = v on a dict
Put(d, k, v) == [x \in (DOMAIN d) \cup {k} |-> IF x = k THEN v ELSE d[x]]

\* d.get(k, default)
Get(d, k, default) == IF k \in DOMAIN d THEN d[k] ELSE default

\* max(a, b) of two small numbers (retry_attempts)
Max(a, b) == IF a >= b THEN a ELSE b

----------------------------------------------------------------------------
(* Python integers *)

\* An int of Python has no width. It is kept as its sign and its decimal
\* digits, the most significant first; zero has no digits and no sign.
\* Header numbers, retry_delay, the backoff delays and the lengths handed
\* to time.sleep are such values; retry_attempts and the attempt number
\* stay within the bounds of the model and are plain numbers.
PyInt(neg, digits) == [neg |-> neg /\ digits # <<>>, digits |-> digits]

RECURSIVE NatDigits(_)
NatDigits(n) == IF n = 0 THEN <<>> ELSE Append(NatDigits(n \div 10), n % 10)

\* the Python int of a small number
Num(n) == IF n < 0 THEN PyInt(TRUE, NatDigits(-n)) ELSE PyInt(FALSE, NatDigits(n))

\* a < b for the digits of two non-negative ints
DigitsLess(a, b) ==
    IF Len(a) # Len(b) THEN Len(a) < Len(b)
    ELSE \E i \in 1..Len(a) : a[i] < b[i] /\ \A j \in 1..(i - 1) : a[j] = b[j]

\* a < b
Less(a, b) ==
    IF a.neg # b.neg THEN a.neg
    ELSE IF a.neg THEN DigitsLess(b.digits, a.digits)
    ELSE DigitsLess(a.digits, b.digits)

\* a <= b
LessEq(a, b) == ~Less(b, a)

\* max(a, b): the first argument unless the second is larger
MaxInt(a, b) == IF Less(a, b) THEN b ELSE a

\* the i-th digit from the right, 0 beyond the most significant one
DigitAt(d, i) == IF i <= Len(d) THEN d[Len(d) + 1 - i] ELSE 0

\* the carry into the i-th digit from the right of a + b
RECURSIVE Carry(_, _, _)
Carry(a, b, i) ==
    IF i = 1 THEN 0
    ELSE (DigitAt(a, i - 1) + DigitAt(b, i - 1) + Carry(a, b, i - 1)) \div 10

\* the digits of a + b, for the digits of two non-negative ints
Sum(a, b) ==
    LET n == Max(Len(a), Len(b))
        low == [k \in 1..n |->
                   (DigitAt(a, n + 1 - k) + DigitAt(b, n + 1 - k)
                        + Carry(a, b, n + 1 - k)) % 10]
    IN  IF Carry(a, b, n + 1) = 0 THEN low ELSE <<1>> \o low

\* 2 * v: the carry into a digit is 1 when the digit to its right is 5 or more
Double(v) ==
    LET d == v.digits
        n == Len(d)
        low == [k \in 1..n |->
                   (2 * d[k] + (IF k < n /\ d[k + 1] >= 5 THEN 1 ELSE 0)) % 10]
    IN  PyInt(v.neg, IF n > 0 /\ d[1] >= 5 THEN <<1>> \o low ELSE low)

\* v * (2 ** n)
RECURSIVE TimesPow2(_, _)
TimesPow2(v, n) == IF n <= 0 THEN v ELSE TimesPow2(Double(v), n - 1)

\* v * 1000
Thousand(v) == PyInt(v.neg, IF v.digits = <<>> THEN <<>> ELSE v.digits \o <<0, 0, 0>>)

----------------------------------------------------------------------------
(* int(str): Python's integer literal parser, base 10 *)

\* the characters Py_UNICODE_ISSPACE / Py_ISSPACE take as whitespace in
\* int(): TAB, LF, VT, FF, CR, SPACE, NEL, NBSP and the Unicode spaces
\* (the separators U+001C..U+001F are not among them)
Whitespace ==
    {" ", "\t", "\n", "\r", "\f", "U+000B", "U+0085", "U+00A0", "U+1680",
     "U+2000", "U+2001", "U+2002", "U+2003", "U+2004", "U+2005", "U+2006",
     "U+2007", "U+2008", "U+2009", "U+200A", "U+2028", "U+2029", "U+202F",
     "U+205F", "U+3000"}

\* the decimal digits of Unicode (category Nd), which int() accepts alike:
\* each script's digits of value 0 to 9 in order, the ASCII digits first
DigitBlocks ==
    {
      <<"0", "1", "2", "3", "4", "5", "6", "7", "8", "9">>,
      <<"U+0660", "U+0661", "U+0662", "U+0663", "U+0664",
        "U+0665", "U+0666", "U+0667", "U+0668", "U+0669">>,
      <<"U+06F0", "U+06F1", "U+06F2", "U+06F3", "U+06F4",
        "U+06F5", "U+06F6", "U+06F7", "U+06F8", "U+06F9">>,
      <<"U+07C0", "U+07C1", "U+07C2", "U+07C3", "U+07C4",
        "U+07C5", "U+07C6", "U+07C7", "U+07C8", "U+07C9">>,
      <<"U+0966", "U+0967", "U+0968", "U+0969", "U+096A",
        "U+096B", "U+096C", "U+096D", "U+096E", "U+096F">>,
      <<"U+09E6", "U+09E7", "U+09E8", "U+09E9", "U+09EA",
        "U+09EB", "U+09EC", "U+09ED", "U+09EE", "U+09EF">>,
      <<"U+0A66", "U+0A67", "U+0A68", "U+0A69", "U+0A6A",
        "U+0A6B", "U+0A6C", "U+0A6D", "U+0A6E", "U+0A6F">>,
      <<"U+0AE6", "U+0AE7", "U+0AE8", "U+0AE9", "U+0AEA",
        "U+0AEB", "U+0AEC", "U+0AED", "U+0AEE", "U+0AEF">>,
      <<"U+0B66", "U+0B67", "U+0B68", "U+0B69", "U+0B6A",
        "U+0B6B", "U+0B6C", "U+0B6D", "U+0B6E", "U+0B6F">>,
      <<"U+0BE6", "U+0BE7", "U+0BE8", "U+0BE9", "U+0BEA",
        "U+0BEB", "U+0BEC", "U+0BED", "U+0BEE", "U+0BEF">>,
      <<"U+0C66", "U+0C67", "U+0C68", "U+0C69", "U+0C6A",
        "U+0C6B", "U+0C6C", "U+0C6D", "U+0C6E", "U+0C6F">>,
      <<"U+0CE6", "U+0CE7", "U+0CE8", "U+0CE9", "U+0CEA",
        "U+0CEB", "U+0CEC", "U+0CED", "U+0CEE", "U+0CEF">>,
      <<"U+0D66", "U+0D67", "U+0D68", "U+0D69", "U+0D6A",
        "U+0D6B", "U+0D6C", "U+0D6D", "U+0D6E", "U+0D6F">>,
      <<"U+0DE6", "U+0DE7", "U+0DE8", "U+0DE9", "U+0DEA",
        "U+0DEB", "U+0DEC", "U+0DED", "U+0DEE", "U+0DEF">>,
      <<"U+0E50", "U+0E51", "U+0E52", "U+0E53", "U+0E54",
        "U+0E55", "U+0E56", "U+0E57", "U+0E58", "U+0E59">>,
      <<"U+0ED0", "U+0ED1", "U+0ED2", "U+0ED3", "U+0ED4",
        "U+0ED5", "U+0ED6", "U+0ED7", "U+0ED8", "U+0ED9">>,
      <<"U+0F20", "U+0F21", "U+0F22", "U+0F23", "U+0F24",
        "U+0F25", "U+0F26", "U+0F27", "U+0F28", "U+0F29">>,
      <<"U+1040", "U+1041", "U+1042", "U+1043", "U+1044",
        "U+1045", "U+1046", "U+1047", "U+1048", "U+1049">>,
      <<"U+1090", "U+1091", "U+1092", "U+1093", "U+1094",
        "U+1095", "U+1096", "U+1097", "U+1098", "U+1099">>,
      <<"U+17E0", "U+17E1", "U+17E2", "U+17E3", "U+17E4",
        "U+17E5", "U+17E6", "U+17E7", "U+17E8", "U+17E9">>,
      <<"U+1810", "U+1811", "U+1812", "U+1813", "U+1814",
        "U+1815", "U+1816", "U+1817", "U+1818", "U+1819">>,
      <<"U+1946", "U+1947", "U+1948", "U+1949", "U+194A",
        "U+194B", "U+194C", "U+194D", "U+194E", "U+194F">>,
      <<"U+19D0", "U+19D1", "U+19D2", "U+19D3", "U+19D4",
        "U+19D5", "U+19D6", "U+19D7", "U+19D8", "U+19D9">>,
      <<"U+1A80", "U+1A81", "U+1A82", "U+1A83", "U+1A84",
        "U+1A85", "U+1A86", "U+1A87", "U+1A88", "U+1A89">>,
      <<"U+1A90", "U+1A91", "U+1A92", "U+1A93", "U+1A94",
        "U+1A95", "U+1A96", "U+1A97", "U+1A98", "U+1A99">>,
      <<"U+1B50", "U+1B51", "U+1B52", "U+1B53", "U+1B54",
        "U+1B55", "U+1B56", "U+1B57", "U+1B58", "U+1B59">>,
      <<"U+1BB0", "U+1BB1", "U+1BB2", "U+1BB3", "U+1BB4",
        "U+1BB5", "U+1BB6", "U+1BB7", "U+1BB8", "U+1BB9">>,
      <<"U+1C40", "U+1C41", "U+1C42", "U+1C43", "U+1C44",
        "U+1C45", "U+1C46", "U+1C47", "U+1C48", "U+1C49">>,
      <<"U+1C50", "U+1C51", "U+1C52", "U+1C53", "U+1C54",
        "U+1C55", "U+1C56", "U+1C57", "U+1C58", "U+1C59">>,
      <<"U+A620", "U+A621", "U+A622", "U+A623", "U+A624",
        "U+A625", "U+A626", "U+A627", "U+A628", "U+A629">>,
      <<"U+A8D0", "U+A8D1", "U+A8D2", "U+A8D3", "U+A8D4",
        "U+A8D5", "U+A8D6", "U+A8D7", "U+A8D8", "U+A8D9">>,
      <<"U+A900", "U+A901", "U+A902", "U+A903", "U+A904",
        "U+A905", "U+A906", "U+A907", "U+A908", "U+A909">>,
      <<"U+A9D0", "U+A9D1", "U+A9D2", "U+A9D3", "U+A9D4",
        "U+A9D5", "U+A9D6", "U+A9D7", "U+A9D8", "U+A9D9">>,
      <<"U+A9F0", "U+A9F1", "U+A9F2", "U+A9F3", "U+A9F4",
        "U+A9F5", "U+A9F6", "U+A9F7", "U+A9F8", "U+A9F9">>,
      <<"U+AA50", "U+AA51", "U+AA52", "U+AA53", "U+AA54",
        "U+AA55", "U+AA56", "U+AA57", "U+AA58", "U+AA59">>,
      <<"U+ABF0", "U+ABF1", "U+ABF2", "U+ABF3", "U+ABF4",
        "U+ABF5", "U+ABF6", "U+ABF7", "U+ABF8", "U+ABF9">>,
      <<"U+FF10", "U+FF11", "U+FF12", "U+FF13", "U+FF14",
        "U+FF15", "U+FF16", "U+FF17", "U+FF18", "U+FF19">>,
      <<"U+104A0", "U+104A1", "U+104A2", "U+104A3", "U+104A4",
        "U+104A5", "U+104A6", "U+104A7", "U+104A8", "U+104A9">>,
      <<"U+10D30", "U+10D31", "U+10D32", "U+10D33", "U+10D34",
        "U+10D35", "U+10D36", "U+10D37", "U+10D38", "U+10D39">>,
      <<"U+11066", "U+11067", "U+11068", "U+11069", "U+1106A",
        "U+1106B", "U+1106C", "U+1106D", "U+1106E", "U+1106F">>,
      <<"U+110F0", "U+110F1", "U+110F2", "U+110F3", "U+110F4",
        "U+110F5", "U+110F6", "U+110F7", "U+110F8", "U+110F9">>,
      <<"U+11136", "U+11137", "U+11138", "U+11139", "U+1113A",
        "U+1113B", "U+1113C", "U+1113D", "U+1113E", "U+1113F">>,
      <<"U+111D0", "U+111D1", "U+111D2", "U+111D3", "U+111D4",
        "U+111D5", "U+111D6", "U+111D7", "U+111D8", "U+111D9">>,
      <<"U+112F0", "U+112F1", "U+112F2", "U+112F3", "U+112F4",
        "U+112F5", "U+112F6", "U+112F7", "U+112F8", "U+112F9">>,
      <<"U+11450", "U+11451", "U+11452", "U+11453", "U+11454",
        "U+11455", "U+11456", "U+11457", "U+11458", "U+11459">>,
      <<"U+114D0", "U+114D1", "U+114D2", "U+114D3", "U+114D4",
        "U+114D5", "U+114D6", "U+114D7", "U+114D8", "U+114D9">>,
      <<"U+11650", "U+11651", "U+11652", "U+11653", "U+11654",
        "U+11655", "U+11656", "U+11657", "U+11658", "U+11659">>,
      <<"U+116C0", "U+116C1", "U+116C2", "U+116C3", "U+116C4",
        "U+116C5", "U+116C6", "U+116C7", "U+116C8", "U+116C9">>,
      <<"U+11730", "U+11731", "U+11732", "U+11733", "U+11734",
        "U+11735", "U+11736", "U+11737", "U+11738", "U+11739">>,
      <<"U+118E0", "U+118E1", "U+118E2", "U+118E3", "U+118E4",
        "U+118E5", "U+118E6", "U+118E7", "U+118E8", "U+118E9">>,
      <<"U+11950", "U+11951", "U+11952", "U+11953", "U+11954",
        "U+11955", "U+11956", "U+11957", "U+11958", "U+11959">>,
      <<"U+11C50", "U+11C51", "U+11C52", "U+11C53", "U+11C54",
        "U+11C55", "U+11C56", "U+11C57", "U+11C58", "U+11C59">>,
      <<"U+11D50", "U+11D51", "U+11D52", "U+11D53", "U+11D54",
        "U+11D55", "U+11D56", "U+11D57", "U+11D58", "U+11D59">>,
      <<"U+11DA0", "U+11DA1", "U+11DA2", "U+11DA3", "U+11DA4",
        "U+11DA5", "U+11DA6", "U+11DA7", "U+11DA8", "U+11DA9">>,
      <<"U+16A60", "U+16A61", "U+16A62", "U+16A63", "U+16A64",
        "U+16A65", "U+16A66", "U+16A67", "U+16A68", "U+16A69">>,
      <<"U+16AC0", "U+16AC1", "U+16AC2", "U+16AC3", "U+16AC4",
        "U+16AC5", "U+16AC6", "U+16AC7", "U+16AC8", "U+16AC9">>,
      <<"U+16B50", "U+16B51", "U+16B52", "U+16B53", "U+16B54",
        "U+16B55", "U+16B56", "U+16B57", "U+16B58", "U+16B59">>,
      <<"U+1D7CE", "U+1D7CF", "U+1D7D0", "U+1D7D1", "U+1D7D2",
        "U+1D7D3", "U+1D7D4", "U+1D7D5", "U+1D7D6", "U+1D7D7">>,
      <<"U+1D7D8", "U+1D7D9", "U+1D7DA", "U+1D7DB", "U+1D7DC",
        "U+1D7DD", "U+1D7DE", "U+1D7DF", "U+1D7E0", "U+1D7E1">>,
      <<"U+1D7E2", "U+1D7E3", "U+1D7E4", "U+1D7E5", "U+1D7E6",
        "U+1D7E7", "U+1D7E8", "U+1D7E9", "U+1D7EA", "U+1D7EB">>,
      <<"U+1D7EC", "U+1D7ED", "U+1D7EE", "U+1D7EF", "U+1D7F0",
        "U+1D7F1", "U+1D7F2", "U+1D7F3", "U+1D7F4", "U+1D7F5">>,
      <<"U+1D7F6", "U+1D7F7", "U+1D7F8", "U+1D7F9", "U+1D7FA",
        "U+1D7FB", "U+1D7FC", "U+1D7FD", "U+1D7FE", "U+1D7FF">>,
      <<"U+1E140", "U+1E141", "U+1E142", "U+1E143", "U+1E144",
        "U+1E145", "U+1E146", "U+1E147", "U+1E148", "U+1E149">>,
      <<"U+1E2F0", "U+1E2F1", "U+1E2F2", "U+1E2F3", "U+1E2F4",
        "U+1E2F5", "U+1E2F6", "U+1E2F7", "U+1E2F8", "U+1E2F9">>,
      <<"U+1E950", "U+1E951", "U+1E952", "U+1E953", "U+1E954",
        "U+1E955", "U+1E956", "U+1E957", "U+1E958", "U+1E959">>,
      <<"U+1FBF0", "U+1FBF1", "U+1FBF2", "U+1FBF3", "U+1FBF4",
        "U+1FBF5", "U+1FBF6", "U+1FBF7", "U+1FBF8", "U+1FBF9">>
    }

Digits == UNION { { b[i] : i \in 1..10 } : b \in DigitBlocks }

\* the value of each decimal digit (Py_UNICODE_TODECIMAL)
DigitValues ==
    [c \in Digits |-> CHOOSE v \in 0..9 : \E b \in DigitBlocks : b[v + 1] = c]

DigitVal(c) == DigitValues[c]

RECURSIVE LStrip(_)
LStrip(s) == IF s # <<>> /\ Head(s) \in Whitespace THEN LStrip(Tail(s)) ELSE s

RECURSIVE RStrip(_)
RStrip(s) ==
    IF s # <<>> /\ s[Len(s)] \in Whitespace THEN RStrip(SubSeq(s, 1, Len(s) - 1)) ELSE s

\* str.strip(): int() ignores surrounding whitespace
Strip(s) == RStrip(LStrip(s))

HasSign(s) == s # <<>> /\ Head(s) \in {"-", "+"}

\* the literal without its sign
Unsigned(s) == IF HasSign(s) THEN Tail(s) ELSE s

\* digits, with single underscores allowed between digits
IsDigitString(s) ==
    /\ s # <<>>
    /\ s[1] \in Digits
    /\ s[Len(s)] \in Digits
    /\ \A i \in 1..Len(s) : s[i] \in Digits \cup {"_"}
    /\ \A i \in 1..(Len(s) - 1) : ~(s[i] = "_" /\ s[i + 1] = "_")

\* sys.get_int_max_str_digits(), the default of CPython: int() refuses a
\* literal of more digits
MaxStrDigits == 4300

\* the digits of a literal; underscores, sign and whitespace do not count
DigitCount(s) == Cardinality({ i \in 1..Len(s) : s[i] \in Digits })

\* int(s) returns (does not raise ValueError)
IsIntLiteral(s) ==
    /\ IsDigitString(Unsigned(Strip(s)))
    /\ DigitCount(Unsigned(Strip(s))) <= MaxStrDigits

\* the digits from the first one that is not a zero: the leading zeros
\* and their underscores add nothing to the value
Significant(s) ==
    LET nz == { i \in 1..Len(s) : s[i] # "_" /\ DigitVal(s[i]) # 0 }
    IN  IF nz = {} THEN <<>>
        ELSE SubSeq(s, CHOOSE i \in nz : \A j \in nz : i <= j, Len(s))

\* int(s), for a string int() accepts
ParseInt(s) ==
    LET t == Strip(s)
        IsDigit(ch) == ch # "_"
        ds == SelectSeq(Significant(Unsigned(t)), IsDigit)
    IN  PyInt(HasSign(t) /\ Head(t) = "-", [i \in 1..Len(ds) |-> DigitVal(ds[i])])

----------------------------------------------------------------------------
(* RateLimitTracker *)

HLimit == "X-Ratelimit-Limit-Requests"
HRemaining == "X-Ratelimit-Remaining-Requests"
HReset == "X-Ratelimit-Reset-Requests"
HRetryAfter == "retry-after"

\* one "if <header> in headers: limit_info[<key>] = ..." statement; st is
\* [info, raised]: once int() has raised nothing further is executed, and
\* what was already stored in limit_info stays stored (the dict is shared)
ApplyHeader(st, headers, hdr, key, numeric) ==
    IF st.raised \/ hdr \notin DOMAIN headers THEN st
    ELSE IF numeric
         THEN IF IsIntLiteral(headers[hdr])
              THEN [st EXCEPT !.info = Put(st.info, key, ParseInt(headers[hdr]))]
              ELSE [st EXCEPT !.raised = TRUE]
         ELSE [st EXCEPT !.info = Put(st.info, key, headers[hdr])]

\* the final "limit_info['last_updated'] = time.time()"
StampLastUpdated(st, t) ==
    IF st.raised THEN st ELSE [st EXCEPT !.info = Put(st.info, "last_updated", t)]

\* update_rate_limit(client_id, headers) at time t on the map limits:
\* [limits |-> the map afterwards, raised |-> int() raised ValueError]
UpdateRateLimit(limits, cid, headers, t) ==
    LET info0 == IF cid \in DOMAIN limits THEN limits[cid] ELSE EmptyDict
        s0 == [info |-> info0, raised |-> FALSE]
        s1 == ApplyHeader(s0, headers, HLimit, "limit", TRUE)
        s2 == ApplyHeader(s1, headers, HRemaining, "remaining", TRUE)
        s3 == ApplyHeader(s2, headers, HReset, "reset_time", FALSE)
        s4 == ApplyHeader(s3, headers, HRetryAfter, "retry_after", TRUE)
        s5 == StampLastUpdated(s4, t)
    IN  [limits |-> Put(limits, cid, s5.info), raised |-> s5.raised]

\* is_rate_limited(client_id)
IsRateLimited(limits, cid) ==
    IF cid \notin DOMAIN limits THEN FALSE
    ELSE LessEq(Get(limits[cid], "remaining", Num(1)), Num(0))

\* get_retry_after(client_id): an Optional[int]
GetRetryAfter(limits, cid) ==
    IF cid \notin DOMAIN limits THEN None
    ELSE IF "retry_after" \in DOMAIN limits[cid]
         THEN Some(limits[cid]["retry_after"])
         ELSE None

\* Python truthiness of an Optional[int]: "if retry_after:"
TruthyInt(o) == o # None /\ o[1] # Num(0)

----------------------------------------------------------------------------
(* ResilienceConfig *)

\* ResilienceConfig(fallback_enabled, retry_attempts, retry_delay), with
\* retry_attempts a small number and retry_delay a Python int
ResilienceConfig(fe, ra, rd) ==
    [fallback_enabled |-> fe, retry_attempts |-> Max(0, ra),
     retry_delay |-> MaxInt(Num(0), rd)]

----------------------------------------------------------------------------
(* The exceptions of the requests library, as the executor sees them:      *)
(* RequestException.__init__ sets self.response (None unless given); no    *)
(* exception of the library has an attribute named "timeout".              *)

\* session.request found no server (ConnectionError, Timeout, ...)
TransportError(k) ==
    [type |-> "ConnectionError", response |-> None, has_timeout |-> FALSE, attempt |-> k]

\* response.raise_for_status() on a 4xx/5xx: HTTPError(..., response=self)
HTTPError(status, k) ==
    [type |-> "HTTPError", response |-> Some(status), has_timeout |-> FALSE, attempt |-> k]

\* line 117: RequestException("Rate limited (429) - not retrying"), built
\* without a response argument
RateLimitedError(k) ==
    [type |-> "RequestException", response |-> None, has_timeout |-> FALSE, attempt |-> k]

\* int() on a header value that is no integer literal; not a RequestException
ValueError(k) ==
    [type |-> "ValueError", response |-> None, has_timeout |-> FALSE, attempt |-> k]

\* response.json() on a body that is no JSON: requests' JSONDecodeError, a
\* RequestException built without a response
JSONDecodeError(k) ==
    [type |-> "JSONDecodeError", response |-> None, has_timeout |-> FALSE, attempt |-> k]

\* an exception time.sleep raises (ValueError, OverflowError, OSError), or
\* the ValueError of formatting an int of more than MaxStrDigits digits;
\* none is a RequestException
SleepException(type, k) ==
    [type |-> type, response |-> None, has_timeout |-> FALSE, attempt |-> k]

NoError == [type |-> "None", response |-> None, has_timeout |-> FALSE, attempt |-> 0]

\* bool(response): Response.__bool__ is Response.ok, false for 4xx and 5xx
ResponseTruthy(status) == ~(400 <= status /\ status < 600)

\* _should_retry(error)
ShouldRetry(error) ==
    IF error.response = None /\ ~error.has_timeout THEN TRUE
    ELSE IF error.response # None /\ 500 <= error.response[1] /\ error.response[1] < 600
    THEN TRUE
    ELSE IF error.response # None /\ error.response[1] = 429 THEN FALSE
    ELSE FALSE

\* lines 125-130: should_retry after the "Don't retry on rate limiting" override,
\* whose condition tests the truthiness of e.response
ShouldRetryAfterOverride(e) ==
    IF e.response # None /\ ResponseTruthy(e.response[1]) /\ e.response[1] = 429
    THEN FALSE
    ELSE ShouldRetry(e)

\* line 133: the fallback is used
UseFallback(cfg, fb) == cfg.fallback_enabled /\ fb # None

\* line 138: the backoff delay in milliseconds after failed attempt k
BackoffDelay(cfg, k) == TimesPow2(cfg.retry_delay, k - 1)

----------------------------------------------------------------------------
(* time.sleep, as CPython runs it on Linux (clock_nanosleep with an         *)
(* absolute deadline on CLOCK_MONOTONIC); lengths are in milliseconds       *)

\* a timeout and a deadline are signed 64-bit counts of nanoseconds
\* (_PyTime_t): the least whole number of milliseconds that such a count
\* cannot hold, 2^63 ns rounded up
PyTimeLimit == PyInt(FALSE, <<9, 2, 2, 3, 3, 7, 2, 0, 3, 6, 8, 5, 5>>)

\* what CLOCK_MONOTONIC reads when a thread calls time.sleep, in whole
\* milliseconds since boot: a second, thirty days
MonotonicReadings == { Thousand(Num(1)), Thousand(Num(2592000)) }

\* the exception time.sleep raises for a length of ms milliseconds when the
\* clock reads up, "None" when it sleeps. The length is converted first:
\* OverflowError for a length of either sign that no timeout can hold. Then
\* ValueError("sleep length must be non-negative"). Then the deadline, the
\* reading plus the length: OSError (EINVAL) from clock_nanosleep when the
\* sum does not fit the 64 bits
SleepError(ms, up) ==
    IF ~DigitsLess(ms.digits, PyTimeLimit.digits) THEN "OverflowError"
    ELSE IF ms.neg THEN "ValueError"
    ELSE IF ~DigitsLess(Sum(ms.digits, up.digits), PyTimeLimit.digits) THEN "OSError"
    ELSE "None"

\* time.sleep raises
SleepRaises(ms, up) == SleepError(ms, up) # "None"

\* an f-string formatting v raises ValueError: str() of an int of more than
\* sys.get_int_max_str_digits() digits
FormatRaises(v) == Len(v.digits) > MaxStrDigits

\* lines 101-102 and 115-116: the warning is formatted and time.sleep(secs)
\* is called with a number of seconds
WaitError(secs, up) ==
    IF FormatRaises(secs) THEN "ValueError" ELSE SleepError(Thousand(secs), up)

\* lines 139-140: the warning is formatted and time.sleep(delay / 1000) is
\* called with a number of milliseconds; the division raises OverflowError
\* itself for a delay no float can hold
BackoffError(delay, up) ==
    IF FormatRaises(delay) THEN "ValueError" ELSE SleepError(delay, up)

----------------------------------------------------------------------------
(* The environment: what callers pass and what the server answers *)

\* all header mappings whose keys are a subset of DOMAIN values and whose
\* value for key k is drawn from values[k]
HeaderMaps(values) ==
    UNION { { h \in [D -> UNION { values[k] : k \in D }] :
                \A k \in D : h[k] \in values[k] } : D \in SUBSET (DOMAIN values) }

\* header values a server sends to the executor: integers (one of them
\* negative), and a retry-after that is an HTTP date rather than a number
\* of seconds
ExecHeaderValues ==
    (HRemaining :> { <<"0">>, <<"1">> })
    @@ (HRetryAfter :> { <<"2">>, <<"-", "1">>, <<"W", "e", "d">> })

ExecHeaders == HeaderMaps(ExecHeaderValues)

\* the status of a response, one of each class: 2xx, 3xx (a redirect
\* that is not followed: allow_redirects=False among the kwargs, or no
\* Location header), 429, another 4xx, 5xx
Statuses == {200, 302, 404, 429, 503}

\* a body that is no JSON document (an HTML page, an empty body)
NotJson == "<html>"

\* the body of a response: below 400 what response.json() parses, or a
\* body it cannot parse; the body of an error response is not read
Body(status) == IF status < 400 THEN {"p1", NotJson} ELSE {"err"}

Responses ==
    UNION { { [status |-> st, headers |-> h, body |-> b] : h \in ExecHeaders, b \in Body(st) }
            : st \in Statuses }

\* what session.request does: returns a response, or raises with no response
ServerOutcomes == { Some(r) : r \in Responses } \cup { None }

FallbackInputs == { None, Some("fb") }
RetryAttemptInputs == (-1)..MaxRetries
\* retry_delay in milliseconds: negative, a tenth of a second, and a delay
\* of 9223372000 s, which time.sleep accepts or not with the reading of the
\* clock and whose double no timeout can hold
RetryDelayInputs ==
    { Num(-100), Num(100), PyInt(FALSE, <<9, 2, 2, 3, 3, 7, 2, 0, 0, 0, 0, 0, 0>>) }

NoOutcome == [kind |-> "none", value |-> "", error |-> NoError]
Returned(v) == [kind |-> "return", value |-> v, error |-> NoError]
Raised(e) == [kind |-> "raise", value |-> "", error |-> e]

NoUpdate == [cid |-> "", headers |-> EmptyDict, raised |-> FALSE]

\* threads that call update_rate_limit
Threads == {1, 2}

\* the fields of a limit_info that come from headers
HeaderFields == {"limit", "remaining", "reset_time", "retry_after"}

IdleThread == [pc |-> "idle", cid |-> "", headers |-> EmptyDict, ref |-> 0, clock |-> 0]

\* refs: client_limits as references to dict objects; heap: the dict
\* objects; th: each thread's position and locals (client_id, headers,
\* limit_info, the value time.time() returned); written: history, the values each field was assigned;
\* calls: history, the calls started
NoRace ==
    [refs |-> EmptyDict, heap |-> <<>>, th |-> [t \in Threads |-> IdleThread],
     written |-> [c \in ClientIds |-> [k \in HeaderFields |-> {}]], calls |-> 0]

----------------------------------------------------------------------------
(* execute_with_resilience *)

\* a call of execute_with_resilience: the manager (config, client_id), the
\* argument fallback_data, the position of the thread and its locals
CallState(cfg, cid, fb, p, k, le, out, tr) ==
    [config |-> cfg, client_id |-> cid, fallback_data |-> fb, pc |-> p,
     attempt |-> k, last_error |-> le, outcome |-> out, trace |-> tr]

\* no call is under way
NoCall ==
    CallState(ResilienceConfig(FALSE, 2, Num(1000)), "default", None, "idle", 0,
              NoError, NoOutcome, <<>>)

Init ==
    /\ client_limits = EmptyDict
    /\ now = 0
    /\ config = NoCall.config
    /\ client_id = NoCall.client_id
    /\ fallback_data = NoCall.fallback_data
    /\ pc = NoCall.pc
    /\ attempt = NoCall.attempt
    /\ last_error = NoCall.last_error
    /\ outcome = NoCall.outcome
    /\ trace = NoCall.trace
    /\ last_update = NoUpdate
    /\ race = NoRace
    /\ peer = NoCall

\* a wait of the trace raised instead of sleeping
BadSleep(tr) == \E i \in 1..Len(tr) : tr[i][1] = "sleep_error"

\* line 95
TotalAttempts(cfg) == 1 + cfg.retry_attempts

\* lines 94-98: a manager (cfg, cid) is called with fallback_data fb and
\* asks the tracker whether its client identifier is rate-limited
Enter(cfg, cid, fb, limits) ==
    CallState(cfg, cid, fb, IF IsRateLimited(limits, cid) THEN "prewait" ELSE "attempting",
              1, NoError, NoOutcome, <<>>)

\* lines 99-102: the tracker is asked for retry_after, and a truthy value
\* is slept, the clock reading up. An exception of time.sleep is raised
\* outside the try block: the call ends before any request is sent
PreWait(c, limits, up) ==
    LET retry_after == GetRetryAfter(limits, c.client_id)
        err == WaitError(retry_after[1], up)
    IN  IF ~TruthyInt(retry_after) THEN [c EXCEPT !.pc = "attempting"]
        ELSE IF err # "None"
        THEN [c EXCEPT !.pc = "raised", !.outcome = Raised(SleepException(err, 0)),
                       !.trace = @ \o << <<"prewait", retry_after[1]>>,
                                         <<"sleep_error", err>> >>]
        ELSE [c EXCEPT !.pc = "attempting",
                       !.trace = Append(@, <<"prewait", retry_after[1]>>)]

\* line 106: session.request is called and the thread waits for the answer
Send(c) ==
    [c EXCEPT !.pc = "requesting", !.trace = Append(@, <<"request", c.attempt>>)]

\* lines 122-140: the except clause for the RequestException e raised in
\* attempt c.attempt, the clock reading up. It returns the fallback, raises
\* e, or sleeps the backoff delay (line 140), after which the loop goes on
\* to the next attempt: while it sleeps the thread stands at "attempting".
\* An exception of line 139 or of time.sleep is raised inside the except
\* clause and leaves the call in place of e
HandleError(c, e, up) ==
    IF ~ShouldRetryAfterOverride(e) \/ c.attempt = TotalAttempts(c.config)
    THEN IF UseFallback(c.config, c.fallback_data)
         THEN [c EXCEPT !.pc = "returned", !.outcome = Returned(c.fallback_data[1]),
                        !.last_error = e]
         ELSE [c EXCEPT !.pc = "raised", !.outcome = Raised(e), !.last_error = e]
    ELSE LET delay == BackoffDelay(c.config, c.attempt)
             err == BackoffError(delay, up)
         IN  IF err # "None"
             THEN [c EXCEPT !.pc = "raised",
                            !.outcome = Raised(SleepException(err, c.attempt)),
                            !.last_error = e,
                            !.trace = @ \o << <<"backoff", delay>>,
                                              <<"sleep_error", err>> >>]
             ELSE [c EXCEPT !.pc = "attempting", !.attempt = @ + 1, !.last_error = e,
                            !.trace = Append(@, <<"backoff", delay>>)]

\* line 106 returns: session.request ends with the outcome o. With no
\* response its exception goes to the except clause; with a response the
\* thread goes on to update_rate_limit (line 109)
Receive(c, o, up) ==
    IF o = None
    THEN HandleError([c EXCEPT !.trace = Append(@, <<"no_response", c.attempt>>)],
                     TransportError(c.attempt), up)
    ELSE [c EXCEPT !.pc = "updating",
                   !.trace = Append(@, <<"response", o[1].status, o[1].body>>)]

\* lines 109-120 after update_rate_limit has ended, raised telling that
\* int() raised ValueError in it: that is no RequestException, the except
\* clause does not catch it and it leaves the call at once. Otherwise the
\* status of the response is examined: a 429 goes on to line 113,
\* raise_for_status raises for another 4xx or a 5xx, and response.json()
\* raises JSONDecodeError for a body that is no JSON, inside the try block;
\* otherwise the parsed body is returned. The last iteration always returns
\* or raises (total_attempts >= 1), so the "raise last_error" of line 142 is
\* never executed
Examine(c, raised, up) ==
    LET status == c.trace[Len(c.trace)][2]
        body == c.trace[Len(c.trace)][3]
    IN  IF raised
        THEN [c EXCEPT !.pc = "raised", !.outcome = Raised(ValueError(c.attempt)),
                       !.trace = Append(@, <<"value_error", c.attempt>>)]
        ELSE IF status = 429 THEN [c EXCEPT !.pc = "ratewait"]
        ELSE IF 400 <= status /\ status < 600
        THEN HandleError(c, HTTPError(status, c.attempt), up)
        ELSE IF body = NotJson
        THEN HandleError(c, JSONDecodeError(c.attempt), up)
        ELSE [c EXCEPT !.pc = "returned", !.outcome = Returned(body)]

\* lines 106-120 and the except clause run by a thread that no other
\* thread interrupts: session.request ends with the outcome o at time t,
\* update_rate_limit runs from its first statement to its last, and the
\* status is examined, the clock reading up; [call, limits] afterwards
Answer(c, o, limits, t, up) ==
    IF o = None
    THEN [call |-> Receive(c, o, up), limits |-> limits]
    ELSE LET upd == UpdateRateLimit(limits, c.client_id, o[1].headers, t)
         IN  [call |-> Examine(Receive(c, o, up), upd.raised, up), limits |-> upd.limits]

\* line 117 and the except clause that catches its RequestException
RateLimitRaise(c, up) == HandleError(c, RateLimitedError(c.attempt), up)

\* lines 113-116: after a 429 the tracker is asked for retry_after; a truthy
\* value is slept, the clock reading up (an exception of time.sleep is no
\* RequestException: the except clause does not catch it), and with none
\* line 117 raises at once
RateLimitWait(c, limits, up) ==
    LET retry_after == GetRetryAfter(limits, c.client_id)
        err == WaitError(retry_after[1], up)
    IN  IF ~TruthyInt(retry_after) THEN RateLimitRaise(c, up)
        ELSE IF err # "None"
        THEN [c EXCEPT !.pc = "raised",
                       !.outcome = Raised(SleepException(err, c.attempt)),
                       !.trace = @ \o << <<"ratewait", retry_after[1]>>,
                                         <<"sleep_error", err>> >>]
        ELSE [c EXCEPT !.pc = "sleeping",
                       !.trace = Append(@, <<"ratewait", retry_after[1]>>)]

\* the call that is followed step by step
Self ==
    CallState(config, client_id, fallback_data, pc, attempt, last_error, outcome, trace)

\* the call followed goes on as c
Become(c) ==
    /\ config' = c.config
    /\ client_id' = c.client_id
    /\ fallback_data' = c.fallback_data
    /\ pc' = c.pc
    /\ attempt' = c.attempt
    /\ last_error' = c.last_error
    /\ outcome' = c.outcome
    /\ trace' = c.trace

\* A manager (config, client id) is called
Call ==
    /\ pc = "idle"
    /\ \E fe \in BOOLEAN, ra \in RetryAttemptInputs, rd \in RetryDelayInputs,
          cid \in ManagerIds, fb \in FallbackInputs :
          Become(Enter(ResilienceConfig(fe, ra, rd), cid, fb, client_limits))
    /\ UNCHANGED <<client_limits, now, last_update, race, peer>>

\* The call makes its pre-wait
PreWaitStep ==
    /\ pc = "prewait"
    /\ \E up \in MonotonicReadings : Become(PreWait(Self, client_limits, up))
    /\ UNCHANGED <<client_limits, now, last_update, race, peer>>

\* The call sends the request of an attempt
Request ==
    /\ pc = "attempting"
    /\ now < MaxTime
    /\ Become(Send(Self))
    /\ UNCHANGED <<client_limits, now, last_update, race, peer>>

\* session.request ends with the outcome o, in a process where this call
\* is the only thread: nothing comes between the statements of
\* update_rate_limit, which are one step with the answer (two threads:
\* SpecConcurrent)
RespondWith(o, up) ==
    LET n == Answer(Self, o, client_limits, now, up)
    IN  /\ Become(n.call)
        /\ client_limits' = n.limits
        /\ now' = now + 1
        /\ UNCHANGED <<race, peer>>

\* The server answers the request, or the request fails
Respond ==
    /\ pc = "requesting"
    /\ \E o \in ServerOutcomes, up \in MonotonicReadings : RespondWith(o, up)
    /\ UNCHANGED last_update

\* The call, answered 429, reads retry_after and starts its wait
RateLimitWaitStep ==
    /\ pc = "ratewait"
    /\ \E up \in MonotonicReadings : Become(RateLimitWait(Self, client_limits, up))
    /\ UNCHANGED <<client_limits, now, last_update, race, peer>>

\* The wait of a 429 is over
RateLimitRaiseStep ==
    /\ pc = "sleeping"
    /\ \E up \in MonotonicReadings : Become(RateLimitRaise(Self, up))
    /\ UNCHANGED <<client_limits, now, last_update, race, peer>>

\* The call has returned or raised: its locals and the manager are gone,
\* the tracker stays
Finish ==
    /\ pc \in {"returned", "raised"}
    /\ Become(NoCall)
    /\ UNCHANGED <<client_limits, now, last_update, race, peer>>

Next ==
    \/ Call
    \/ PreWaitStep
    \/ Request
    \/ Respond
    \/ RateLimitWaitStep
    \/ RateLimitRaiseStep
    \/ Finish

Spec == Init /\ [][Next]_vars

----------------------------------------------------------------------------
(* The tracker used on its own: update_rate_limit called with any headers *)

\* header values given to update_rate_limit directly, among them values
\* int() rejects and values int() accepts with whitespace around the
\* digits or in the digits of another script
TrackerHeaderValues ==
    (HLimit :> { <<"5">>, <<"x">> })
    @@ (HRemaining :> { <<"0", "\r", "\n">>, <<"U+0663">> })
    @@ (HReset :> { <<"1", "s">> })
    @@ (HRetryAfter :> { <<"\t", "2">>, <<"W", "e", "d">> })

TrackerHeaders == HeaderMaps(TrackerHeaderValues)

\* update_rate_limit(cid, headers) is called at time now
Update ==
    /\ pc = "idle"
    /\ now < MaxUpdates
    /\ \E cid \in ClientIds, h \in TrackerHeaders :
          LET upd == UpdateRateLimit(client_limits, cid, h, now)
          IN  /\ client_limits' = upd.limits
              /\ last_update' = [cid |-> cid, headers |-> h, raised |-> upd.raised]
    /\ now' = now + 1
    /\ UNCHANGED <<config, client_id, fallback_data, pc, attempt, last_error,
                   outcome, trace, race, peer>>

NextTracker == Update

SpecTracker == Init /\ [][NextTracker]_vars

----------------------------------------------------------------------------
(* Reading the history of a call *)

Ended == pc \in {"returned", "raised"}

IsRequest(ev) == ev[1] = "request"
IsBackoff(ev) == ev[1] = "backoff"
\* the server's answer to a request: a response, or none
IsAnswer(ev) == ev[1] \in {"response", "no_response"}
IsStatus(ev, lo, hi) == ev[1] = "response" /\ lo <= ev[2] /\ ev[2] <= hi

Requests(tr) == Cardinality({ i \in 1..Len(tr) : IsRequest(tr[i]) })
Answers(tr) == { i \in 1..Len(tr) : IsAnswer(tr[i]) }

\* the position of the answer to the last request sent (0 when none)
LastAnswer(tr) == IF Answers(tr) = {} THEN 0
                  ELSE CHOOSE i \in Answers(tr) : \A j \in Answers(tr) : j <= i

\* a 2xx response whose body is a JSON document
IsSuccess(ev) == IsStatus(ev, 200, 299) /\ ev[3] # NotJson

\* the call ended on a failure: the last answer is no 2xx response whose
\* body could be parsed
EndedInFailure ==
    /\ Ended
    /\ LastAnswer(trace) > 0
    /\ ~IsSuccess(trace[LastAnswer(trace)])

\* what a failed call must end with, by the fallback rule
FailureOutcome(e) ==
    IF UseFallback(config, fallback_data) THEN Returned(fallback_data[1]) ELSE Raised(e)

----------------------------------------------------------------------------
(* Claims about execute_with_resilience *)

\* C1: a 429 response is never retried: no request and no backoff wait
\* follows it, the retry-after wait (if any) is made at most once, and once
\* that wait is over the call has ended by raising or by returning the
\* fallback.
C1_RateLimitNeverRetried ==
    \A i \in 1..Len(trace) :
        IsStatus(trace[i], 429, 429) =>
            /\ \A j \in (i + 1)..Len(trace) : ~IsRequest(trace[j]) /\ ~IsBackoff(trace[j])
            /\ Cardinality({ j \in (i + 1)..Len(trace) : trace[j][1] = "ratewait" }) <= 1
            /\ pc \notin {"updating", "ratewait", "sleeping"} =>
                   /\ Ended
                   /\ \/ outcome.kind = "raise"
                      \/ UseFallback(config, fallback_data)
                            /\ outcome = Returned(fallback_data[1])

\* C2: when every attempt receives a 5xx status, the call ends only after
\* 1 + retry_attempts requests, by raising or by returning the fallback when
\* it is enabled and provided.
C2_ServerErrorsExhaustAttempts ==
    (/\ Ended
     /\ Answers(trace) # {}
     /\ \A i \in Answers(trace) : IsStatus(trace[i], 500, 599))
    => /\ Requests(trace) = 1 + config.retry_attempts
       /\ IF UseFallback(config, fallback_data)
          THEN outcome = Returned(fallback_data[1])
          ELSE outcome.kind = "raise"

\* C3: with fallback enabled and a fallback supplied, every call that ends
\* in failure returns the fallback unchanged and does not raise.
C3_FallbackOnEveryFailure ==
    (EndedInFailure /\ config.fallback_enabled /\ fallback_data # None)
    => outcome = Returned(fallback_data[1])

\* C4: with fallback disabled the fallback is never returned: a call that
\* ends in failure raises, and a value is returned only for a 2xx response,
\* whose payload it is.
C4_NoFallbackWhenDisabled ==
    (Ended /\ ~config.fallback_enabled)
    => /\ EndedInFailure => outcome.kind = "raise"
       /\ outcome.kind = "return" =>
              /\ LastAnswer(trace) > 0
              /\ IsSuccess(trace[LastAnswer(trace)])
              /\ outcome.value = trace[LastAnswer(trace)][3]

\* fallback disabled, a fallback supplied, all attempts used up on
\* failures, and the call raised
C4_Witness ==
    /\ pc = "raised"
    /\ ~config.fallback_enabled
    /\ fallback_data # None
    /\ config.retry_attempts = 2
    /\ Requests(trace) = 3
    /\ EndedInFailure

\* the events between the answer to request k-1 and request k
Between(tr, k) ==
    LET a == CHOOSE i \in 1..Len(tr) : tr[i] = <<"request", k - 1>>
        b == CHOOSE i \in 1..Len(tr) : tr[i] = <<"request", k>>
    IN  SubSeq(tr, a + 2, b - 1)

\* C5: the wait between failed attempt k-1 and attempt k is exactly
\* retry_delay * 2^(k-2) ms, and no backoff wait follows the last attempt or
\* a failure that is not retryable (a 429, another 4xx).
C5_ExponentialBackoff ==
    /\ \A k \in 2..Requests(trace) :
          Between(trace, k) = << <<"backoff", TimesPow2(config.retry_delay, k - 2)>> >>
    /\ \A i \in 1..Len(trace) :
          IsStatus(trace[i], 400, 499) =>
              \A j \in (i + 1)..Len(trace) : ~IsBackoff(trace[j])
    /\ Ended => ~IsBackoff(trace[Len(trace)])

\* C6: the first 2xx response ends the call: nothing follows it and its
\* payload is what the call returns.
C6_SuccessEndsCall ==
    \A i \in 1..Len(trace) :
        IsStatus(trace[i], 200, 299) =>
            /\ i = Len(trace)
            /\ pc = "returned"
            /\ outcome = Returned(trace[i][3])

\* C7: a 4xx response other than 429 is not retried: nothing follows it,
\* and the call ends at once by raising the HTTP error or by returning the
\* fallback when it is enabled and provided.
C7_ClientErrorNotRetried ==
    \A i \in 1..Len(trace) :
        (IsStatus(trace[i], 400, 499) /\ trace[i][2] # 429) =>
            /\ i = Len(trace)
            /\ Ended
            /\ outcome = FailureOutcome(HTTPError(trace[i][2], Requests(trace)))

\* The calls out of which no exception of int() or of a wait came
NoValueError == outcome.error.type \notin {"ValueError", "OverflowError", "OSError"}

\* every response of the call so far has a 2xx status or an error status
\* (4xx, 5xx)
StatusesClassified ==
    \A i \in Answers(trace) :
        trace[i][1] = "response" =>
            IsStatus(trace[i], 200, 299) \/ IsStatus(trace[i], 400, 599)

\* C2, C3 and C7 hold of every call out of which no such exception came (C3:
\* and whose responses have a 2xx or an error status), and C6 of the 2xx
\* responses of such a call whose body is a JSON document
C2_WhenHeadersParse == NoValueError => C2_ServerErrorsExhaustAttempts
C3_WhenHeadersParse ==
    (NoValueError /\ StatusesClassified) => C3_FallbackOnEveryFailure
\* C4 holds of every call whose responses have a 2xx or an error status
C4_WhenStatusesClassified == StatusesClassified => C4_NoFallbackWhenDisabled
C6_WhenHeadersParse ==
    NoValueError =>
        \A i \in 1..Len(trace) :
            IsSuccess(trace[i]) =>
                /\ i = Len(trace)
                /\ pc = "returned"
                /\ outcome = Returned(trace[i][3])
C7_WhenHeadersParse == NoValueError => C7_ClientErrorNotRetried

----------------------------------------------------------------------------
(* Claims about the RateLimitTracker *)

\* the last direct update_rate_limit call carried header hdr with an integer
Carried(hdr) ==
    /\ last_update # NoUpdate
    /\ hdr \in DOMAIN last_update.headers
    /\ IsIntLiteral(last_update.headers[hdr])

\* the entry of the client of the last direct update_rate_limit call
UpdatedInfo == client_limits[last_update.cid]

\* C8: is_rate_limited(id) is true iff a remaining value is tracked for id
\* and is <= 0: false for an id never passed to update_rate_limit, false
\* while no remaining value was stored, and true immediately after an update
\* whose headers report remaining = 0.
C8_RateLimitedIffRemainingExhausted ==
    /\ \A id \in ClientIds :
          IsRateLimited(client_limits, id) <=>
              /\ id \in DOMAIN client_limits
              /\ "remaining" \in DOMAIN client_limits[id]
              /\ LessEq(client_limits[id]["remaining"], Num(0))
    /\ (Carried(HRemaining) /\ ParseInt(last_update.headers[HRemaining]) = Num(0))
          => IsRateLimited(client_limits, last_update.cid)

\* C9: update_rate_limit has no error outcome: whatever the header values,
\* the call completes normally, last_updated is stamped and every header
\* that carries an integer is applied.
C9_UpdateNeverFails ==
    last_update # NoUpdate =>
        /\ ~last_update.raised
        /\ "last_updated" \in DOMAIN UpdatedInfo
        /\ UpdatedInfo["last_updated"] = now - 1
        /\ \A hk \in { <<HLimit, "limit">>, <<HRemaining, "remaining">>,
                        <<HRetryAfter, "retry_after">> } :
              Carried(hk[1]) =>
                  /\ hk[2] \in DOMAIN UpdatedInfo
                  /\ UpdatedInfo[hk[2]] = ParseInt(last_update.headers[hk[1]])

\* the fields of a limit_info and the header each is read from
FieldOf == (HLimit :> "limit") @@ (HRemaining :> "remaining")
           @@ (HReset :> "reset_time") @@ (HRetryAfter :> "retry_after")

\* the value update_rate_limit stores for header hdr with value v
Stored(hdr, v) == IF hdr = HReset THEN v ELSE ParseInt(v)

\* what C10 says of one update_rate_limit call (read on the step making it)
UpdateFrame ==
    LET u == last_update'
        old == IF u.cid \in DOMAIN client_limits
               THEN client_limits[u.cid] ELSE EmptyDict
        new == client_limits'[u.cid]
    IN  /\ "last_updated" \in DOMAIN new
        /\ new["last_updated"] = now
        /\ \A hdr \in DOMAIN FieldOf :
              IF hdr \in DOMAIN u.headers
              THEN (hdr = HReset \/ IsIntLiteral(u.headers[hdr])) =>
                      /\ FieldOf[hdr] \in DOMAIN new
                      /\ new[FieldOf[hdr]] = Stored(hdr, u.headers[hdr])
              ELSE /\ FieldOf[hdr] \in DOMAIN new <=> FieldOf[hdr] \in DOMAIN old
                   /\ FieldOf[hdr] \in DOMAIN old =>
                          new[FieldOf[hdr]] = old[FieldOf[hdr]]

\* C10: an update overwrites exactly the fields whose header is present
\* (with the header's value), leaves the fields whose header is absent as
\* they were, and always sets last_updated to the current time.
C10_UpdateOverwritesPresentOnly ==
    [][ now' # now => UpdateFrame ]_vars

\* C8, C9 and C10 hold of every update in which int() did not raise
C8_WhenHeadersParse == ~last_update.raised => C8_RateLimitedIffRemainingExhausted
C9_WhenHeadersParse == ~last_update.raised => C9_UpdateNeverFails
C10_WhenHeadersParse == [][ (now' # now /\ ~last_update'.raised) => UpdateFrame ]_vars

----------------------------------------------------------------------------
(* update_rate_limit run by several threads at once: one step per          *)
(* statement, the tracker having no lock                                    *)

\* header values of the racing calls
RaceHeaderValues ==
    (HLimit :> { <<"5">>, <<"7">> })
    @@ (HRemaining :> { <<"0">> })

RaceHeaders == HeaderMaps(RaceHeaderValues)

\* the contents of client_limits, the references followed
MapView(refs, heap) == [c \in DOMAIN refs |-> heap[refs[c]]]

\* the statements of lines 22-29 in order: position, header, key, int()
FieldSteps ==
    << [at |-> "limit", hdr |-> HLimit, key |-> "limit", numeric |-> TRUE],
       [at |-> "remaining", hdr |-> HRemaining, key |-> "remaining", numeric |-> TRUE],
       [at |-> "reset_time", hdr |-> HReset, key |-> "reset_time", numeric |-> FALSE],
       [at |-> "retry_after", hdr |-> HRetryAfter, key |-> "retry_after", numeric |-> TRUE] >>

\* the position after field statement i
AfterField(i) == IF i = Len(FieldSteps) THEN "stamp" ELSE FieldSteps[i + 1].at

\* the race state with thread t changed to th and the rest as given
RaceWith(t, th, refs, heap, written, calls) ==
    [refs |-> refs, heap |-> heap, th |-> [race.th EXCEPT ![t] = th],
     written |-> written, calls |-> calls]

\* the threads run update_rate_limit only: no manager is called meanwhile
RaceFrame ==
    UNCHANGED <<config, client_id, fallback_data, pc, attempt, last_error,
                outcome, trace, last_update, peer>>

\* the thread has left update_rate_limit: it returned, or int() raised
Left(pos) == [IdleThread EXCEPT !.pc = pos]

\* the thread is not inside update_rate_limit
Outside(th) == th.pc \in {"idle", "done", "raised"}

\* a thread enters update_rate_limit(cid, headers)
RaceStart(t) ==
    /\ Outside(race.th[t])
    /\ race.calls < MaxUpdates
    /\ \E cid \in ClientIds, h \in RaceHeaders :
          race' = RaceWith(t, [pc |-> "check", cid |-> cid, headers |-> h, ref |-> 0,
                               clock |-> 0],
                           race.refs, race.heap, race.written, race.calls + 1)
    /\ UNCHANGED <<client_limits, now>>
    /\ RaceFrame

\* line 16: if client_id not in self.client_limits
RaceCheck(t) ==
    LET th == race.th[t]
    IN  /\ th.pc = "check"
        /\ race' = RaceWith(t, [th EXCEPT !.pc = IF th.cid \in DOMAIN race.refs
                                                  THEN "bind" ELSE "create"],
                            race.refs, race.heap, race.written, race.calls)
        /\ UNCHANGED <<client_limits, now>>
        /\ RaceFrame

\* line 17 binding the new dict object to every identifier tracked
RaceCreateForAll(t) ==
    LET th == race.th[t]
        heap == Append(race.heap, EmptyDict)
        refs == [c \in DOMAIN race.refs \cup {th.cid} |-> Len(heap)]
    IN  /\ th.pc = "create"
        /\ race' = RaceWith(t, [th EXCEPT !.pc = "bind"], refs, heap,
                            race.written, race.calls)
        /\ client_limits' = MapView(refs, heap)
        /\ UNCHANGED now
        /\ RaceFrame

\* line 17: self.client_limits[client_id] = {}, a new dict object
RaceCreate(t) ==
    LET th == race.th[t]
        heap == Append(race.heap, EmptyDict)
        refs == Put(race.refs, th.cid, Len(heap))
    IN  /\ th.pc = "create"
        /\ race' = RaceWith(t, [th EXCEPT !.pc = "bind"], refs, heap,
                            race.written, race.calls)
        /\ client_limits' = MapView(refs, heap)
        /\ UNCHANGED now
        /\ RaceFrame

\* line 19: limit_info = self.client_limits[client_id]
RaceBind(t) ==
    LET th == race.th[t]
    IN  /\ th.pc = "bind"
        /\ race' = RaceWith(t, [th EXCEPT !.pc = "limit", !.ref = race.refs[th.cid]],
                            race.refs, race.heap, race.written, race.calls)
        /\ UNCHANGED <<client_limits, now>>
        /\ RaceFrame

\* lines 22-29: one "if <header> in headers: limit_info[<key>] = ..." on the
\* dict object the thread holds; int() raising ends the call
RaceField(t) ==
    LET th == race.th[t]
    IN  \E i \in 1..Len(FieldSteps) :
          LET f == FieldSteps[i]
              st == ApplyHeader([info |-> race.heap[th.ref], raised |-> FALSE],
                                th.headers, f.hdr, f.key, f.numeric)
              heap == [race.heap EXCEPT ![th.ref] = st.info]
              wrote == f.hdr \in DOMAIN th.headers /\ ~st.raised
              written == IF wrote
                         THEN [race.written EXCEPT ![th.cid][f.key] = @ \cup {st.info[f.key]}]
                         ELSE race.written
          IN  /\ th.pc = f.at
              /\ race' = RaceWith(t, IF st.raised THEN Left("raised")
                                     ELSE [th EXCEPT !.pc = AfterField(i)],
                                  race.refs, heap, written, race.calls)
              /\ client_limits' = MapView(race.refs, heap)
              /\ UNCHANGED now
              /\ RaceFrame

\* line 31, right-hand side: time.time() returns
RaceClock(t) ==
    LET th == race.th[t]
    IN  /\ th.pc = "stamp"
        /\ race' = RaceWith(t, [th EXCEPT !.pc = "store", !.clock = now],
                            race.refs, race.heap, race.written, race.calls)
        /\ now' = now + 1
        /\ UNCHANGED client_limits
        /\ RaceFrame

\* line 31, the store: limit_info['last_updated'] = the value time.time()
\* returned; the call returns
RaceStore(t) ==
    LET th == race.th[t]
        st == StampLastUpdated([info |-> race.heap[th.ref], raised |-> FALSE], th.clock)
        heap == [race.heap EXCEPT ![th.ref] = st.info]
    IN  /\ th.pc = "store"
        /\ race' = RaceWith(t, Left("done"), race.refs, heap, race.written, race.calls)
        /\ client_limits' = MapView(race.refs, heap)
        /\ UNCHANGED now
        /\ RaceFrame

NextRace ==
    \E t \in Threads :
        \/ RaceStart(t)
        \/ RaceCheck(t)
        \/ RaceCreate(t)
        \/ RaceBind(t)
        \/ RaceField(t)
        \/ RaceClock(t)
        \/ RaceStore(t)

SpecRace == Init /\ [][NextRace]_vars

\* no thread is inside update_rate_limit
Quiescent == \A t \in Threads : Outside(race.th[t])

\* C11: after concurrent update_rate_limit calls the tracker holds, for
\* every field some call assigned, one of the values assigned to it: no
\* assignment is lost unless another call assigned the same field.
C11_FieldLevelLastWriteWins ==
    Quiescent =>
        \A c \in ClientIds : \A k \in HeaderFields :
            race.written[c][k] # {} =>
                /\ c \in DOMAIN client_limits
                /\ k \in DOMAIN client_limits[c]
                /\ client_limits[c][k] \in race.written[c][k]

----------------------------------------------------------------------------
(* Calls of managers with the default configuration, the headers of each  *)
(* response observed                                                      *)

\* header values of the observed responses: integers, among them a zero
\* and a negative retry-after and ones of 9223372037 seconds of either
\* sign, and a limit that is no integer
ObservedHeaderValues ==
    (HLimit :> { <<"x">> })
    @@ (HRemaining :> { <<"0">>, <<"1">> })
    @@ (HRetryAfter :> { <<"0">>, <<"2">>, <<"-", "1">>,
                         <<"9", "2", "2", "3", "3", "7", "2", "0", "3", "7">>,
                         <<"-", "9", "2", "2", "3", "3", "7", "2", "0", "3", "7">> })

ObservedOutcomes ==
    { None } \cup
    { Some([status |-> st, headers |-> h, body |-> "p1"]) :
         st \in Statuses, h \in HeaderMaps(ObservedHeaderValues) }

\* ResilienceManager(client_id=cid): config is None, so ResilienceConfig()
\* with its defaults; called without fallback_data. No response of this
\* call has been observed yet
CallObserved ==
    /\ pc = "idle"
    /\ \E cid \in ManagerIds :
          Become(Enter(ResilienceConfig(FALSE, 2, Num(1000)), cid, None, client_limits))
    /\ last_update' = NoUpdate
    /\ UNCHANGED <<client_limits, now, race, peer>>

\* line 109 as seen from outside: the update_rate_limit call of an attempt
Observation(o) ==
    IF o = None THEN NoUpdate
    ELSE [cid |-> client_id, headers |-> o[1].headers,
          raised |-> UpdateRateLimit(client_limits, client_id, o[1].headers, now).raised]

\* The server answers the request, or the request fails; the response is
\* observed
RespondObserved ==
    /\ pc = "requesting"
    /\ \E o \in ObservedOutcomes, up \in MonotonicReadings :
          /\ RespondWith(o, up)
          /\ last_update' = Observation(o)

NextObserved ==
    \/ CallObserved
    \/ PreWaitStep
    \/ Request
    \/ RespondObserved
    \/ RateLimitWaitStep
    \/ RateLimitRaiseStep
    \/ Finish

SpecObserved == Init /\ [][NextObserved]_vars

----------------------------------------------------------------------------
(* Two threads, each calling execute_with_resilience of a manager of its   *)
(* own, on the one tracker: the steps of the two calls interleave, and     *)
(* inside update_rate_limit the steps are its statements                   *)

\* the answers to the two calls: the payload with or without a remaining
\* header, or a 429 that tells when to come back
ConcurrentOutcomes ==
    { Some([status |-> 200, headers |-> EmptyDict, body |-> "p1"]),
      Some([status |-> 200, headers |-> (HRemaining :> <<"1">>), body |-> "p1"]),
      Some([status |-> 429,
            headers |-> (HRemaining :> <<"0">>) @@ (HRetryAfter :> <<"2">>),
            body |-> "err"]) }

\* the managers of the two threads: ResilienceManager(config, cid) with one
\* retry, called without fallback_data
ConcurrentConfig == ResilienceConfig(FALSE, 1, Num(1000))

\* the thread of the call followed step by step, and the other thread
SelfThread == 1
PeerThread == 2

\* the rest of the state while the other thread takes a step of its call
PeerFrame ==
    UNCHANGED <<config, client_id, fallback_data, pc, attempt, last_error,
                outcome, trace, last_update>>

\* thread t calls update_rate_limit(cid, headers), line 109, or does not
\* (no response)
EnterUpdate(t, cid, o) ==
    IF o = None THEN race
    ELSE RaceWith(t, [pc |-> "check", cid |-> cid, headers |-> o[1].headers,
                      ref |-> 0, clock |-> 0],
                  race.refs, race.heap, race.written, race.calls + 1)

\* thread t is back from update_rate_limit
LeaveUpdate(t) ==
    RaceWith(t, IdleThread, race.refs, race.heap, race.written, race.calls)

\* The first thread calls its manager
CallConcurrent ==
    /\ pc = "idle"
    /\ \E cid \in ClientIds :
          Become(Enter(ConcurrentConfig, cid, None, client_limits))
    /\ UNCHANGED <<client_limits, now, last_update, race, peer>>

\* the requests sent so far by the two threads: those answered (each
\* answer calls update_rate_limit) and those awaiting their answer
RequestsSent ==
    race.calls + (IF pc = "requesting" THEN 1 ELSE 0)
               + (IF peer.pc = "requesting" THEN 1 ELSE 0)

\* The first thread sends the request of an attempt
RequestConcurrent ==
    /\ pc = "attempting"
    /\ RequestsSent < MaxUpdates
    /\ Become(Send(Self))
    /\ UNCHANGED <<client_limits, now, last_update, race, peer>>

\* The first thread's request is answered: line 106 returns
RespondConcurrent ==
    /\ pc = "requesting"
    /\ \E o \in ConcurrentOutcomes, up \in MonotonicReadings :
          /\ Become(Receive(Self, o, up))
          /\ race' = EnterUpdate(SelfThread, client_id, o)
    /\ UNCHANGED <<client_limits, now, last_update, peer>>

\* The first thread, back from update_rate_limit, examines the status
ExamineStep ==
    /\ pc = "updating"
    /\ Outside(race.th[SelfThread])
    /\ \E up \in MonotonicReadings :
          Become(Examine(Self, race.th[SelfThread].pc = "raised", up))
    /\ race' = LeaveUpdate(SelfThread)
    /\ UNCHANGED <<client_limits, now, last_update, peer>>

\* The other thread calls its manager
PeerCall ==
    /\ peer.pc = "idle"
    /\ \E cid \in ManagerIds :
          peer' = Enter(ConcurrentConfig, cid, None, client_limits)
    /\ UNCHANGED <<client_limits, now, race>>
    /\ PeerFrame

\* The other thread makes its pre-wait
PeerPreWaitStep ==
    /\ peer.pc = "prewait"
    /\ \E up \in MonotonicReadings : peer' = PreWait(peer, client_limits, up)
    /\ UNCHANGED <<client_limits, now, race>>
    /\ PeerFrame

\* The other thread sends the request of an attempt
PeerRequest ==
    /\ peer.pc = "attempting"
    /\ RequestsSent < MaxUpdates
    /\ peer' = Send(peer)
    /\ UNCHANGED <<client_limits, now, race>>
    /\ PeerFrame

\* The other thread's request is answered: line 106 returns
PeerRespond ==
    /\ peer.pc = "requesting"
    /\ \E o \in ConcurrentOutcomes, up \in MonotonicReadings :
          /\ peer' = Receive(peer, o, up)
          /\ race' = EnterUpdate(PeerThread, peer.client_id, o)
    /\ UNCHANGED <<client_limits, now>>
    /\ PeerFrame

\* The other thread, back from update_rate_limit, examines the status
PeerExamineStep ==
    /\ peer.pc = "updating"
    /\ Outside(race.th[PeerThread])
    /\ \E up \in MonotonicReadings :
          peer' = Examine(peer, race.th[PeerThread].pc = "raised", up)
    /\ race' = LeaveUpdate(PeerThread)
    /\ UNCHANGED <<client_limits, now>>
    /\ PeerFrame

\* The other thread, answered 429, reads retry_after and starts its wait
PeerRateLimitWaitStep ==
    /\ peer.pc = "ratewait"
    /\ \E up \in MonotonicReadings : peer' = RateLimitWait(peer, client_limits, up)
    /\ UNCHANGED <<client_limits, now, race>>
    /\ PeerFrame

\* The other thread's wait of a 429 is over
PeerRateLimitRaiseStep ==
    /\ peer.pc = "sleeping"
    /\ \E up \in MonotonicReadings : peer' = RateLimitRaise(peer, up)
    /\ UNCHANGED <<client_limits, now, race>>
    /\ PeerFrame

\* The other thread's call has returned or raised
PeerFinish ==
    /\ peer.pc \in {"returned", "raised"}
    /\ peer' = NoCall
    /\ UNCHANGED <<client_limits, now, race>>
    /\ PeerFrame

\* A thread inside update_rate_limit executes its next statement
UpdateStatement ==
    \E t \in Threads :
        \/ RaceCheck(t)
        \/ RaceCreate(t)
        \/ RaceBind(t)
        \/ RaceField(t)
        \/ RaceClock(t)
        \/ RaceStore(t)

NextConcurrent ==
    \/ CallConcurrent
    \/ PreWaitStep
    \/ RequestConcurrent
    \/ RespondConcurrent
    \/ ExamineStep
    \/ RateLimitWaitStep
    \/ RateLimitRaiseStep
    \/ Finish
    \/ PeerCall
    \/ PeerPreWaitStep
    \/ PeerRequest
    \/ PeerRespond
    \/ PeerExamineStep
    \/ PeerRateLimitWaitStep
    \/ PeerRateLimitRaiseStep
    \/ PeerFinish
    \/ UpdateStatement

SpecConcurrent == Init /\ [][NextConcurrent]_vars

----------------------------------------------------------------------------
(* Further claims about execute_with_resilience *)

\* C12: a call that ends by raising after an attempt raises the error of
\* the last attempt made: it is an error, it belongs to the last request
\* sent, and it is the error of that request's answer (for a 2xx response,
\* the error of parsing its body).
C12_RaisesLastAttemptError ==
    (pc = "raised" /\ LastAnswer(trace) > 0) =>
        LET ans == trace[LastAnswer(trace)]
            e == outcome.error
            n == Requests(trace)
        IN  /\ outcome.kind = "raise"
            /\ e # NoError
            /\ e.attempt = n
            /\ ans[1] = "no_response" => e = TransportError(n)
            /\ ans[1] = "response" =>
                   \/ e = ValueError(n)
                   \/ ans[2] = 429 /\ e = RateLimitedError(n)
                   \/ ans[2] # 429 /\ ans[2] >= 400 /\ e = HTTPError(ans[2], n)
                   \/ ans[2] < 400 /\ ans[3] = NotJson /\ e = JSONDecodeError(n)

\* C12 holds of every call whose waits time.sleep accepts
C12_WhenWaitsAreValid == ~BadSleep(trace) => C12_RaisesLastAttemptError

\* a call raised the HTTP error of its third attempt, after a first attempt
\* that found no server
C12_Witness ==
    /\ pc = "raised"
    /\ Requests(trace) = 3
    /\ \E i \in 1..Len(trace) : trace[i] = <<"no_response", 1>>
    /\ outcome = Raised(HTTPError(503, 3))

\* every answer of the call so far was a transport failure
OnlyTransportFailures ==
    /\ Answers(trace) # {}
    /\ \A i \in Answers(trace) : trace[i][1] = "no_response"

\* C13: a transport failure of attempt k below 1 + retry_attempts is
\* followed by the backoff wait retry_delay * 2^(k-1) and then by request
\* k + 1, the call not having ended; at attempt 1 + retry_attempts it ends
\* the call. So a call whose attempts all fail with no response ends after
\* exactly 1 + retry_attempts requests.
C13_TransportFailureRetried ==
    /\ \A i \in 1..Len(trace) :
          trace[i][1] = "no_response" =>
              LET k == trace[i][2]
              IN  IF k < 1 + config.retry_attempts
                  THEN /\ i < Len(trace)
                       /\ trace[i + 1] = <<"backoff", TimesPow2(config.retry_delay, k - 1)>>
                       /\ i + 1 = Len(trace) => pc = "attempting" /\ attempt = k + 1
                       /\ i + 1 < Len(trace) => trace[i + 2] = <<"request", k + 1>>
                  ELSE i = Len(trace) /\ Ended
    /\ (Ended /\ OnlyTransportFailures) => Requests(trace) = 1 + config.retry_attempts

\* C13 holds of every call whose waits time.sleep accepts
C13_WhenWaitsAreValid == ~BadSleep(trace) => C13_TransportFailureRetried

\* a call with two retries ended after three requests that found no server
C13_Witness ==
    /\ Ended
    /\ OnlyTransportFailures
    /\ Requests(trace) = 3
    /\ config.retry_delay = Num(100)

\* C14: a call sends at most 1 + retry_attempts requests and, once ended,
\* has sent at least one and has ended in exactly one of three ways: it
\* returned the payload of the 2xx response that answered its last request,
\* it returned the fallback payload after a failure, or it raised an error.
C14_BoundedRequestsThreeOutcomes ==
    /\ Requests(trace) <= 1 + config.retry_attempts
    /\ pc = "attempting" => attempt = Requests(trace) + 1
    /\ Ended =>
          /\ Requests(trace) >= 1
          /\ \/ /\ pc = "returned"
                /\ LastAnswer(trace) > 0
                /\ IsSuccess(trace[LastAnswer(trace)])
                /\ outcome = Returned(trace[LastAnswer(trace)][3])
             \/ /\ pc = "returned"
                /\ EndedInFailure
                /\ fallback_data # None
                /\ outcome = Returned(fallback_data[1])
             \/ /\ pc = "raised"
                /\ outcome.kind = "raise"
                /\ outcome.error # NoError

\* C14 holds of every call whose waits time.sleep accepts and whose
\* responses have a 2xx or an error status
C14_WhenWaitsAreValid ==
    (~BadSleep(trace) /\ StatusesClassified) => C14_BoundedRequestsThreeOutcomes

\* the seconds waited before the first request of a call
PreWaitSeconds(tr) == IF tr # <<>> /\ tr[1][1] = "prewait" THEN tr[1][2] ELSE Num(0)

\* the waits of a trace made before a first attempt
PreWaits(tr) == { i \in 1..Len(tr) : tr[i][1] = "prewait" }

\* what a step of a call does about the pre-wait: entering the call goes
\* to the pre-wait exactly when the tracker holds remaining <= 0 for the
\* client identifier; the pre-wait waits the tracked retry_after seconds
\* when one is known, and then the call stands before attempt 1; any other
\* step of a call adds no pre-wait
PreWaitRule ==
    /\ (pc = "idle" /\ pc' # "idle") =>
          LET cid == client_id'
              limited == /\ cid \in DOMAIN client_limits
                         /\ "remaining" \in DOMAIN client_limits[cid]
                         /\ LessEq(client_limits[cid]["remaining"], Num(0))
          IN  /\ pc' = IF limited THEN "prewait" ELSE "attempting"
              /\ trace' = <<>>
              /\ attempt' = 1
    /\ (pc = "prewait" /\ pc' # "prewait") =>
          LET known == /\ client_id \in DOMAIN client_limits
                       /\ "retry_after" \in DOMAIN client_limits[client_id]
          IN  /\ PreWaitSeconds(trace') =
                     IF known THEN client_limits[client_id]["retry_after"] ELSE Num(0)
              /\ PreWaits(trace') \subseteq {1}
              /\ Len(trace') <= 1
              /\ pc' = "attempting"
              /\ attempt' = 1
    /\ pc \in {"attempting", "requesting", "updating", "ratewait", "sleeping"} =>
          PreWaits(trace') = PreWaits(trace)

\* C15: the pre-wait is made at most once per call and only before the
\* first attempt, for the tracked retry_after seconds, if and only if the
\* client identifier is rate-limited with a known retry_after at call
\* entry; the call then always goes on to its first request.
C15_PreWaitOnlyAtEntry == [][PreWaitRule]_vars

\* C15 holds of every step that does not end in a wait time.sleep refuses
C15_WhenWaitsAreValid == [][~BadSleep(trace') => PreWaitRule]_vars

\* a step in which the request of an attempt is answered
AttemptTaken == pc = "requesting" /\ now' # now

\* a step that enters a call
CallTaken == pc = "idle" /\ pc' # "idle"

\* what an attempt does to the tracker: with a response, the entry of the
\* manager's client identifier holds the integer of every numeric header
\* the response carries and is stamped with the time of the attempt,
\* whatever the status and however the call goes on; with no response the
\* tracker is as it was
UpdateOnResponseRule ==
    AttemptTaken =>
        IF last_update' = NoUpdate
        THEN client_limits' = client_limits
        ELSE LET h == last_update'.headers
             IN  /\ client_id \in DOMAIN client_limits'
                 /\ \A i \in 1..Len(FieldSteps) :
                       LET f == FieldSteps[i]
                       IN  (f.numeric /\ f.hdr \in DOMAIN h /\ IsIntLiteral(h[f.hdr])) =>
                               /\ f.key \in DOMAIN client_limits'[client_id]
                               /\ client_limits'[client_id][f.key] = ParseInt(h[f.hdr])
                 /\ "last_updated" \in DOMAIN client_limits'[client_id]
                 /\ client_limits'[client_id]["last_updated"] = now

\* C16: every attempt that obtains a response updates the tracker entry of
\* the manager's client identifier from the headers of that response,
\* whatever the status; an attempt without a response leaves the tracker
\* unchanged.
C16_TrackerUpdatedOnEveryResponse == [][UpdateOnResponseRule]_vars

\* C16 holds of every attempt in which int() did not raise
C16_WhenHeadersParse == [][~last_update'.raised => UpdateOnResponseRule]_vars

\* C17: ResilienceConfig stores every negative retry_attempts or
\* retry_delay as 0 and every other value as given, so that
\* 1 + retry_attempts >= 1, every ended call has sent at least one request
\* and no backoff wait is negative.
C17_ConfigClampedToNonNegative ==
    /\ \A fe \in BOOLEAN, ra \in RetryAttemptInputs, rd \in RetryDelayInputs :
          /\ ResilienceConfig(fe, ra, rd).retry_attempts = IF ra < 0 THEN 0 ELSE ra
          /\ ResilienceConfig(fe, ra, rd).retry_delay =
                 IF Less(rd, Num(0)) THEN Num(0) ELSE rd
    /\ config.retry_attempts >= 0
    /\ LessEq(Num(0), config.retry_delay)
    /\ 1 + config.retry_attempts >= 1
    /\ Ended => Requests(trace) >= 1
    /\ \A i \in 1..Len(trace) : IsBackoff(trace[i]) => LessEq(Num(0), trace[i][2])

\* C17 holds of every call whose waits time.sleep accepts
C17_WhenWaitsAreValid == ~BadSleep(trace) => C17_ConfigClampedToNonNegative

\* the client identifier on whose behalf a step acts: that of the manager
\* of the thread taking the step
Actor ==
    IF peer' # peer
    THEN IF peer.pc = "idle" THEN peer'.client_id ELSE peer.client_id
    ELSE IF pc' # pc
    THEN IF pc = "idle" THEN client_id' ELSE client_id
    ELSE IF race.th[SelfThread] # race'.th[SelfThread]
    THEN race.th[SelfThread].cid
    ELSE race.th[PeerThread].cid

\* what a step does to the other identifiers: their entries, and what
\* is_rate_limited and get_retry_after answer for them, stay as they are;
\* no entry leaves the tracker
PartitionRule ==
    /\ \A c \in ClientIds \ {Actor} :
          /\ c \in DOMAIN client_limits' <=> c \in DOMAIN client_limits
          /\ c \in DOMAIN client_limits => client_limits'[c] = client_limits[c]
          /\ IsRateLimited(client_limits', c) = IsRateLimited(client_limits, c)
          /\ GetRetryAfter(client_limits', c) = GetRetryAfter(client_limits, c)
    /\ DOMAIN client_limits \subseteq DOMAIN client_limits'

\* C18: the tracker is partitioned by client identifier: a call of a
\* manager bound to A, with the update_rate_limit calls it makes for A,
\* leaves the entry of every other identifier B and the answers of
\* is_rate_limited(B) and get_retry_after(B) unchanged, and no entry is
\* ever removed.
C18_PartitionedByClient == [][PartitionRule]_vars

\* a call for "b" has updated the entry of "b" and returned while the
\* call of another thread for "a", answered 429, is still in the wait of
\* its first attempt: "a" is tracked as rate-limited and "b" is not
C18_Witness ==
    /\ {"a", "b"} \subseteq DOMAIN client_limits
    /\ peer.client_id = "a"
    /\ peer.pc = "sleeping"
    /\ peer.attempt = 1
    /\ IsRateLimited(client_limits, "a")
    /\ GetRetryAfter(client_limits, "a") = Some(Num(2))
    /\ client_id = "b"
    /\ pc = "returned"
    /\ "remaining" \in DOMAIN client_limits["b"]
    /\ ~IsRateLimited(client_limits, "b")

\* the same of direct update_rate_limit calls: the entries of the
\* identifiers other than the one updated stay as they are
C18_DirectUpdates ==
    [][ now' # now =>
          /\ \A c \in ClientIds \ {last_update'.cid} :
                /\ c \in DOMAIN client_limits' <=> c \in DOMAIN client_limits
                /\ c \in DOMAIN client_limits => client_limits'[c] = client_limits[c]
          /\ DOMAIN client_limits \subseteq DOMAIN client_limits'
      ]_vars

\* the response observed in a step carried a remaining header above 0
ObservedRemainingAboveZero ==
    /\ last_update' # NoUpdate
    /\ HRemaining \in DOMAIN last_update'.headers
    /\ IsIntLiteral(last_update'.headers[HRemaining])
    /\ Less(Num(0), ParseInt(last_update'.headers[HRemaining]))

\* the attempt of a step got no response, or one without a remaining header
ObservedNoRemaining ==
    \/ last_update' = NoUpdate
    \/ HRemaining \notin DOMAIN last_update'.headers

\* how the rate-limited state of the manager's client identifier moves: an
\* attempt with no response or no remaining header keeps it, an attempt
\* whose response carries remaining > 0 clears it; entering a call never
\* ends the call, nor does the pre-wait, and no pre-wait is made when the
\* identifier is not rate-limited, whatever retry_after is tracked
RateLimitedRule ==
    /\ AttemptTaken =>
          /\ (IsRateLimited(client_limits, client_id) /\ ObservedNoRemaining) =>
                 IsRateLimited(client_limits', client_id)
          /\ ObservedRemainingAboveZero => ~IsRateLimited(client_limits', client_id)
    /\ CallTaken =>
          /\ pc' \in {"prewait", "attempting"}
          /\ ~IsRateLimited(client_limits, client_id') => pc' = "attempting" /\ trace' = <<>>
    /\ (pc = "prewait" /\ pc' # "prewait") => pc' = "attempting"

\* C19: once rate-limited, a client identifier stays so across attempts
\* without a response or without a remaining header and stops being so as
\* soon as a response with remaining > 0 is observed; the pre-wait never
\* keeps the request from being sent, and a call for an identifier that is
\* no longer rate-limited makes no pre-wait even though a retry_after is
\* still tracked.
C19_RateLimitedStateClears == [][RateLimitedRule]_vars

\* C19 holds of every step in which neither int() nor time.sleep raised
C19_WhenNoValueError ==
    [][(~last_update'.raised /\ ~BadSleep(trace')) => RateLimitedRule]_vars

\* a call for a client that was rate-limited and is so no longer, a
\* retry_after still tracked, has made no pre-wait
C19_Cleared ==
    /\ pc = "attempting"
    /\ trace = <<>>
    /\ ~IsRateLimited(client_limits, client_id)
    /\ GetRetryAfter(client_limits, client_id) = Some(Num(2))

====
